---- MODULE Spec2Model ----
\* A model of generate_report.py: one run of the report generator, from the
\* parsed command line to the exit status, against an arbitrary backend.
EXTENDS Integers, Sequences, FiniteSets, TLC

\* ---------------------------------------------------------------- bounds

\* Longest GITHUB_TOKEN value / helper output considered.
MaxStrLen == 1
\* Most values given to --year.
MaxArgs == 2
\* Most repository pages one run requests.
MaxPages == 2
\* Most repository nodes on one page.
MaxNodes == 1

\* ---------------------------------------------------------------- values

\* An optional value (Python's None or a value): <<>> or <<v>>.
None == <<>>
Some(v) == <<v>>
IsSome(o) == o /= <<>>
Get(o) == o[1]

\* Characters of a token source: whitespace and a token character.
Chars == {" ", "t"}
RECURSIVE StrsOfLen(_)
StrsOfLen(n) == IF n = 0 THEN {<<>>}
                ELSE {Append(s, c) : s \in StrsOfLen(n - 1), c \in Chars}
Strs == UNION {StrsOfLen(n) : n \in 0..MaxStrLen}

\* Years that may be requested, and the argument lists of --year (nargs="+").
YearUniverse == {2023, 2024}
ArgLists == UNION {[1..n -> YearUniverse] : n \in 1..MaxArgs}

\* What `gh` does on this machine when asked for a token.
HelperOutcomes ==
    {[installed |-> FALSE, returncode |-> 0, stdout |-> <<>>],
     [installed |-> TRUE, returncode |-> 1, stdout |-> <<>>]}
    \cup {[installed |-> TRUE, returncode |-> 0, stdout |-> s] : s \in Strs}

\* Cursors the backend may hand out, and the page-info it may return.
Cursors == {"c1"}
EndCursors == {None} \cup {Some(c) : c \in Cursors}

\* totalCount values of one history sub-field.
Counts == 0..1

\* A repository node of a page, for the requested years ys: defaultBranchRef is
\* null, or an object whose target is null or an object holding some of the
\* h<year> sub-fields (possibly none: a target that is not a commit).
Targets(ys) == UNION {[K -> Counts] : K \in SUBSET ys}
Nodes(ys) ==
    {[defaultBranchRef |-> None], [defaultBranchRef |-> Some([target |-> None])]}
    \cup {[defaultBranchRef |-> Some([target |-> Some(t)])] : t \in Targets(ys)}
NodeLists(ys) == UNION {[1..n -> Nodes(ys)] : n \in 0..MaxNodes}

\* data['data'] of the three kinds of query.
ViewerPayloads == {[login |-> "octocat", id |-> "U_1"]}
PagePayloads(ys) ==
    {[nodes |-> ns, hasNextPage |-> hn, endCursor |-> ec] :
        ns \in NodeLists(ys), hn \in BOOLEAN, ec \in EndCursors}
SearchPayloads ==
    {[prs_created |-> 2, prs_merged |-> 1, issues_created |-> 0],
     [prs_created |-> 4, prs_merged |-> 4, issues_created |-> 1]}

\* What the backend may answer to a query whose data would be one of P: an
\* HTTP status and a body with or without "errors" and "data". A 200 without
\* errors carries any of P; one payload stands for the data of the others.
HttpStatuses == {200, 401}
Responses(P) ==
    {[status |-> 200, errors |-> FALSE, data |-> d] :
        d \in {None} \cup {Some(p) : p \in P}}
    \cup {[status |-> st, errors |-> e, data |-> d] :
            st \in HttpStatuses, e \in BOOLEAN,
            d \in {None, Some(CHOOSE p \in P : TRUE)}}

\* Output files: what an earlier run left, and what this run writes.
OldJson == [origin |-> "old", rows |-> <<>>]
OldCsv == [origin |-> "old", header |-> <<>>, rows |-> <<>>]
CsvHeader == <<"Year", "Commits", "PRs Created", "PRs Merged", "Issues Created">>

\* ------------------------------------------------- pure functions of the code

\* str.strip(): drop leading and trailing whitespace.
RECURSIVE LStrip(_)
LStrip(s) == IF s /= <<>> /\ Head(s) = " " THEN LStrip(Tail(s)) ELSE s
RECURSIVE RStrip(_)
RStrip(s) == IF s /= <<>> /\ s[Len(s)] = " " THEN RStrip(SubSeq(s, 1, Len(s) - 1))
             ELSE s
Strip(s) == RStrip(LStrip(s))

\* The years as given: neither sorted nor de-duplicated.
YearsAsGiven(xs) == xs

\* sorted(list(set(xs))).
SeqToSet(xs) == {xs[i] : i \in DOMAIN xs}
Min(S) == CHOOSE m \in S : \A x \in S : m <= x
RECURSIVE Sorted(_)
Sorted(S) == IF S = {} THEN <<>> ELSE <<Min(S)>> \o Sorted(S \ {Min(S)})
SortedSet(xs) == Sorted(SeqToSet(xs))

\* run_query without its status check.
RunQueryIgnoreStatus(resp) ==
    IF resp.errors THEN [raised |-> "GraphQL Error", body |-> <<>>]
    ELSE [raised |-> "", body |-> <<resp>>]

\* run_query keeping a partial result: "errors" raise only without "data".
RunQueryPartial(resp) ==
    IF resp.status /= 200 THEN [raised |-> "API Error", body |-> <<>>]
    ELSE IF resp.errors /\ resp.data = <<>>
         THEN [raised |-> "GraphQL Error", body |-> <<>>]
    ELSE [raised |-> "", body |-> <<resp>>]

\* GitHubClient.run_query on the backend's response: the exception raised
\* ("" when none) and the decoded body.
RunQuery(resp) ==
    IF resp.status /= 200 THEN [raised |-> "API Error", body |-> None]
    ELSE IF resp.errors THEN [raised |-> "GraphQL Error", body |-> None]
    ELSE [raised |-> "", body |-> Some(resp)]

\* A caller's data['data'][...] on the decoded body: KeyError when absent.
Lookup(q) ==
    IF q.raised /= "" THEN q
    ELSE IF IsSome(Get(q.body).data) THEN q
    ELSE [raised |-> "KeyError", body |-> None]
Payload(q) == Get(Get(q.body).data)

\* The totals overwritten by a node's counts rather than increased by them.
AddNodeOverwrite(counts, node) ==
    IF node.defaultBranchRef /= <<>> /\ node.defaultBranchRef[1].target /= <<>>
    THEN LET t == node.defaultBranchRef[1].target[1] IN
         [y \in DOMAIN counts |-> IF y \in DOMAIN t THEN t[y] ELSE counts[y]]
    ELSE counts

\* fetch_repo_stats, lines 99-105: one node added into the running totals.
Truthy(target) == IsSome(target) /\ DOMAIN Get(target) /= {}
AddNode(counts, node) ==
    IF IsSome(node.defaultBranchRef) /\ Truthy(Get(node.defaultBranchRef).target)
    THEN LET t == Get(Get(node.defaultBranchRef).target) IN
         [y \in DOMAIN counts |->
            IF y \in DOMAIN t THEN counts[y] + t[y] ELSE counts[y]]
    ELSE counts
RECURSIVE AddNodes(_, _)
AddNodes(counts, nodes) ==
    IF nodes = <<>> THEN counts
    ELSE AddNodes(AddNode(counts, Head(nodes)), Tail(nodes))

\* main, lines 156-162: the year record.
Record(year, counts, m) ==
    [year |-> year,
     commits |-> IF year \in DOMAIN counts THEN counts[year] ELSE 0,
     prs_created |-> m.prs_created, prs_merged |-> m.prs_merged,
     issues_created |-> m.issues_created]

\* main, line 183: the CSV row of a record.
CsvRow(r) == <<r.year, r.commits, r.prs_created, r.prs_merged, r.issues_created>>
CsvRows(rs) == [i \in DOMAIN rs |-> CsvRow(rs[i])]

\* _get_token asking the helper before the environment.
GetTokenHelperFirst(e, h) ==
    IF h.installed /\ h.returncode = 0
    THEN [exit |-> FALSE, token |-> Strip(h.stdout), invoked |-> TRUE]
    ELSE IF e /= <<>> /\ e[1] /= <<>>
         THEN [exit |-> FALSE, token |-> Strip(e[1]), invoked |-> h.installed]
         ELSE [exit |-> TRUE, token |-> <<>>, invoked |-> h.installed]

\* GitHubClient._get_token on environment value e and helper h. `exit` is
\* sys.exit(1) after the diagnostic; `invoked` says whether `gh` was run.
GetToken(e, h) ==
    IF IsSome(e) /\ Get(e) /= <<>>
    THEN [exit |-> FALSE, token |-> Strip(Get(e)), invoked |-> FALSE]
    ELSE IF h.installed
         THEN IF h.returncode = 0
              THEN [exit |-> FALSE, token |-> Strip(h.stdout), invoked |-> TRUE]
              ELSE [exit |-> TRUE, token |-> <<>>, invoked |-> TRUE]
         ELSE [exit |-> TRUE, token |-> <<>>, invoked |-> FALSE]

\* ---------------------------------------------------------------- state


VARIABLES
    environ,        \* os.environ.get("GITHUB_TOKEN")
    gh,             \* the credential helper's behaviour on this machine
    argYears,       \* args.year
    jsonFile,       \* out/metrics_report.json on disk
    csvFile,        \* out/metrics_report.csv on disk
    pc,             \* the run's position
    years,          \* main's `years`
    token,          \* client.token once the client is constructed
    viewer,         \* main's `viewer`
    commit_counts,  \* fetch_repo_stats' running totals, then main's commit_counts
    cursor,         \* fetch_repo_stats' `cursor`
    has_next,       \* fetch_repo_stats' `has_next`
    results,        \* main's `results`
    stdout,         \* lines printed, by kind
    table,          \* the table rows printed
    exitStatus,     \* the process exit status once it has exited
    log,            \* history: the calls made and what the world answered
    received,       \* history: per year, the counts the backend sent
    before,         \* history: the two files as the run found them
    caught          \* history: main's `except Exception` block ran

vars == <<environ, gh, argYears, jsonFile, csvFile, pc, years, token, viewer,
          commit_counts, cursor, has_next, results, stdout, table, exitStatus,
          log, received, before, caught>>

inputs == <<environ, gh, argYears, before>>
files == <<jsonFile, csvFile>>
fetchState == <<commit_counts, cursor, has_next, received>>

\* An entry of the history: the call, its year or cursor, and the answer: the
\* HTTP status (0 when the call is no query), whether the body held "errors"
\* (for a file operation: whether the system refused it) and "data", and the
\* page-info the caller read.
NoResp == [status |-> 0, errors |-> FALSE, data |-> None]
Refused(r) == [status |-> 0, errors |-> r, data |-> None]
NoPage == [hasNextPage |-> FALSE, endCursor |-> None]
Event(op, year, cur, resp, page) ==
    [op |-> op, year |-> year, cursor |-> cur, status |-> resp.status,
     errors |-> resp.errors, hasData |-> IsSome(resp.data),
     hasNextPage |-> page.hasNextPage, endCursor |-> page.endCursor]
QueryOps == {"viewer", "page", "search"}
Queries == SelectSeq(log, LAMBDA e : e.op \in QueryOps)
Pages == SelectSeq(log, LAMBDA e : e.op = "page")
Searches == SelectSeq(log, LAMBDA e : e.op = "search")

\* The run starts with its inputs read and nothing done.
Started ==
    /\ pc = "parse"
    /\ years = <<>>
    /\ token = None
    /\ viewer = None
    /\ commit_counts = <<>>
    /\ cursor = None
    /\ has_next = FALSE
    /\ results = <<>>
    /\ stdout = <<>>
    /\ table = <<>>
    /\ exitStatus = None
    /\ log = <<>>
    /\ received = <<>>
    /\ before = <<jsonFile, csvFile>>
    /\ caught = FALSE

\* main, lines 138-142: years = sorted(list(set(args.year))).
ParseArgs ==
    /\ pc = "parse"
    /\ years' = SortedSet(argYears)
    /\ pc' = "client"
    /\ UNCHANGED <<inputs, files, token, viewer, fetchState, results, stdout,
                   table, exitStatus, log, caught>>

\* main, line 145: client = GitHubClient(). sys.exit raises SystemExit, which
\* `except Exception` does not catch.
ConstructClient ==
    /\ pc = "client"
    /\ LET r == GetToken(environ, gh) IN
         /\ log' = log \o <<Event("_get_token", 0, None, NoResp, NoPage)>>
                       \o (IF r.invoked
                           THEN <<Event("gh auth token", 0, None,
                                        Refused(gh.returncode /= 0), NoPage)>>
                           ELSE <<>>)
         /\ IF r.exit
            THEN /\ stdout' = Append(stdout, "Error: No GitHub token found")
                 /\ exitStatus' = Some(1)
                 /\ pc' = "exited"
                 /\ UNCHANGED token
            ELSE /\ token' = Some(r.token)
                 /\ pc' = "viewer"
                 /\ UNCHANGED <<stdout, exitStatus>>
    /\ UNCHANGED <<inputs, files, years, viewer, fetchState, results, table,
                   caught>>

\* main, line 188: the line printed for an exception e raised in the try block.
ErrorLine(e) ==
    CASE e = "API Error" -> "Error: API Error"
      [] e = "GraphQL Error" -> "Error: GraphQL Error"
      [] e = "KeyError" -> "Error: 'data'"
      [] OTHER -> "Error: OSError"

\* The handler without its sys.exit(1): the process ends with status 0.
CatchNoExit(e, printed) ==
    /\ caught' = TRUE
    /\ stdout' = stdout \o printed \o <<ErrorLine(e)>>
    /\ exitStatus' = Some(0)
    /\ pc' = "exited"

\* main, lines 187-189: the handler of exception e, raised after the try block
\* printed the lines `printed` in this step: it prints and exits with status 1.
Catch(e, printed) ==
    /\ caught' = TRUE
    /\ stdout' = stdout \o printed \o <<ErrorLine(e)>>
    /\ exitStatus' = Some(1)
    /\ pc' = "exited"

\* main, lines 146-147 and 150 up to the first page request: get_viewer_info,
\* the identity line, then fetch_repo_stats' set-up (lines 62-93).
GetViewer ==
    /\ pc = "viewer"
    /\ \E resp \in Responses(ViewerPayloads) :
         LET q == Lookup(RunQuery(resp)) IN
         IF q.raised /= ""
         THEN /\ Catch(q.raised, <<>>)
              /\ log' = Append(log, Event("viewer", 0, None, resp, NoPage))
              /\ UNCHANGED <<viewer, fetchState>>
         ELSE /\ viewer' = Some(Payload(q))
              /\ stdout' = Append(stdout, "Authenticated as")
              /\ log' = log \o <<Event("viewer", 0, None, resp, NoPage),
                                 Event("fetch_repo_stats", 0, None, NoResp, NoPage)>>
              /\ commit_counts' = [y \in SeqToSet(years) |-> 0]
              /\ received' = [y \in SeqToSet(years) |-> 0]
              /\ cursor' = None
              /\ has_next' = TRUE
              /\ pc' = "repos"
              /\ UNCHANGED <<exitStatus, caught>>
    /\ UNCHANGED <<inputs, files, years, token, results, table>>

\* What a node holds for year y: its history count, 0 without a default
\* branch, a target or the year's sub-field.
Contribution(node, y) ==
    IF node.defaultBranchRef = None THEN 0
    ELSE IF Get(node.defaultBranchRef).target = None THEN 0
    ELSE IF y \notin DOMAIN Get(Get(node.defaultBranchRef).target) THEN 0
    ELSE Get(Get(node.defaultBranchRef).target)[y]
RECURSIVE SumOver(_, _)
SumOver(nodes, y) ==
    IF nodes = <<>> THEN 0
    ELSE Contribution(Head(nodes), y) + SumOver(Tail(nodes), y)

\* The loop never advancing its cursor.
AfterPageSameCursor(page) == [has_next |-> page.hasNextPage, cursor |-> None]

\* fetch_repo_stats, lines 110-111: the loop's state after a page.
AfterPage(page) == [has_next |-> page.hasNextPage, cursor |-> page.endCursor]

\* fetch_repo_stats, lines 95-113: one iteration of the paging loop, and the
\* return to main (line 153) when it was the last.
RepoPage ==
    /\ pc = "repos"
    /\ has_next
    /\ Len(Pages) < MaxPages
    /\ \E resp \in Responses(PagePayloads(SeqToSet(years))) :
         LET q == Lookup(RunQuery(resp)) IN
         IF q.raised /= ""
         THEN /\ Catch(q.raised, <<>>)
              /\ log' = Append(log, Event("page", 0, cursor, resp, NoPage))
              /\ UNCHANGED <<fetchState>>
         ELSE LET page == Payload(q)
                  after == AfterPage(page) IN
              /\ commit_counts' = AddNodes(commit_counts, page.nodes)
              /\ received' = [y \in DOMAIN received |->
                                received[y] + SumOver(page.nodes, y)]
              /\ has_next' = after.has_next
              /\ cursor' = after.cursor
              /\ log' = Append(log, Event("page", 0, cursor, resp, page))
              /\ pc' = IF after.has_next THEN "repos" ELSE "search"
              /\ UNCHANGED <<stdout, exitStatus, caught>>
    /\ UNCHANGED <<inputs, files, years, token, viewer, results, table>>

\* The per-year loop running from the last year to the first.
NextYearDescending(ys, done) == ys[Len(ys) - Len(done)]

\* main, lines 154-162: the year the loop's next iteration asks about.
NextYear(ys, done) == ys[Len(done) + 1]

\* main, lines 154-162: one iteration of the per-year loop.
SearchYear ==
    /\ pc = "search"
    /\ Len(results) < Len(years)
    /\ LET year == NextYear(years, results) IN
       \E resp \in Responses(SearchPayloads) :
         LET q == Lookup(RunQuery(resp)) IN
         IF q.raised /= ""
         THEN /\ Catch(q.raised, <<>>)
              /\ log' = Append(log, Event("search", year, None, resp, NoPage))
              /\ UNCHANGED results
         ELSE /\ results' = Append(results, Record(year, commit_counts, Payload(q)))
              /\ log' = Append(log, Event("search", year, None, resp, NoPage))
              /\ pc' = IF Len(results') = Len(years) THEN "output" ELSE "search"
              /\ UNCHANGED <<stdout, exitStatus, caught>>
    /\ UNCHANGED <<inputs, files, years, token, viewer, fetchState, table>>

\* Where the file system may refuse the output step.
IoOutcomes == {"ok", "makedirs", "json", "csv"}

\* main, lines 165-185: the table, the output directory, then the two files.
Output ==
    /\ pc = "output"
    /\ table' = results
    /\ \E io \in IoOutcomes :
         /\ jsonFile' = IF io \in {"makedirs", "json"} THEN jsonFile
                        ELSE Some([origin |-> "run", rows |-> results])
         /\ csvFile' = IF io /= "ok" THEN csvFile
                       ELSE Some([origin |-> "run", header |-> CsvHeader,
                                  rows |-> CsvRows(results)])
         /\ log' = log
                   \o <<Event("makedirs", 0, None, Refused(io = "makedirs"), NoPage)>>
                   \o (IF io = "makedirs" THEN <<>>
                       ELSE <<Event("write json", 0, None, Refused(io = "json"), NoPage)>>)
                   \o (IF io \in {"makedirs", "json"} THEN <<>>
                       ELSE <<Event("write csv", 0, None, Refused(io = "csv"), NoPage)>>)
         /\ IF io = "ok"
            THEN /\ stdout' = stdout \o <<"=== GitHub Metrics Report ===", "Saved to">>
                 /\ exitStatus' = Some(0)
                 /\ pc' = "exited"
                 /\ UNCHANGED caught
            ELSE Catch("OSError", <<"=== GitHub Metrics Report ===">>)
    /\ UNCHANGED <<inputs, years, token, viewer, fetchState, results>>

Next ==
    \/ ParseArgs
    \/ ConstructClient
    \/ GetViewer
    \/ RepoPage
    \/ SearchYear
    \/ Output

\* Every environment and every helper, one command line, no earlier output.
InitCred ==
    /\ environ \in {None} \cup {Some(s) : s \in Strs}
    /\ gh \in HelperOutcomes
    /\ argYears = <<2024>>
    /\ jsonFile = None
    /\ csvFile = None
    /\ Started

\* Every command line, with or without earlier output, the token in the
\* environment or nowhere.
Init ==
    /\ environ \in {None, Some(<<"t">>)}
    /\ gh = [installed |-> TRUE, returncode |-> 1, stdout |-> <<>>]
    /\ argYears \in ArgLists
    /\ \/ jsonFile = None /\ csvFile = None
       \/ jsonFile = Some(OldJson) /\ csvFile = Some(OldCsv)
    /\ Started

Spec == Init /\ [][Next]_vars
SpecCred == InitCred /\ [][Next]_vars
\* ---------------------------------------------------------------- claims

LastOf(seq) == seq[Len(seq)]
Count(op) == Len(SelectSeq(log, LAMBDA e : e.op = op))
HasEvent(op) == \E i \in DOMAIN log : log[i].op = op
FilesUntouched == <<jsonFile, csvFile>> = before
WrittenByRun(f) == f /= None /\ Get(f).origin = "run"
DistinctYears == SeqToSet(argYears)

\* A source supplies a token when what it holds, trimmed, is not empty.
EnvSupplies == environ /= None /\ Strip(Get(environ)) /= <<>>
HelperSupplies == gh.installed /\ gh.returncode = 0 /\ Strip(gh.stdout) /= <<>>
Resolved == pc \notin {"parse", "client"}

\* C1: when neither GITHUB_TOKEN nor `gh auth token` supplies a token, the run
\* exits with status 1 and never sends a query.
C1_NoTokenNoNetwork ==
    (~EnvSupplies /\ ~HelperSupplies)
        => /\ Queries = <<>>
           /\ pc = "exited" => exitStatus = Some(1)

\* C3: no client is ever constructed with an empty token: the resolver yields
\* a non-empty token or the process ends.
C3_TokenNonEmpty ==
    token /= None => Get(token) /= <<>>

\* C9 as stated: the helper is never run when the environment supplies a
\* token, is run only if the variable is absent, and its non-zero exit ends in
\* the diagnostic and exit status 1 with no error of its own.
C9_HelperOnlyIfAbsent ==
    /\ (environ /= None /\ Get(environ) /= <<>>) => ~HasEvent("gh auth token")
    /\ HasEvent("gh auth token") => environ = None
    /\ (HasEvent("gh auth token") /\ gh.returncode /= 0)
         => /\ exitStatus = Some(1)
            /\ stdout = <<"Error: No GitHub token found">>
            /\ ~caught /\ Queries = <<>>

\* C9 as amended: the helper is never run when the environment supplies a
\* token, is run only if the variable is absent or empty, and its non-zero
\* exit ends in the diagnostic and exit status 1 with no error of its own.
C9_ResolutionOrder ==
    /\ (environ /= None /\ Get(environ) /= <<>>) => ~HasEvent("gh auth token")
    /\ HasEvent("gh auth token") => (environ = None \/ environ = Some(<<>>))
    /\ (HasEvent("gh auth token") /\ gh.returncode /= 0)
         => /\ exitStatus = Some(1)
            /\ stdout = <<"Error: No GitHub token found">>
            /\ ~caught /\ Queries = <<>>
    /\ Resolved => (HasEvent("gh auth token")
                      <=> (gh.installed /\ (environ = None \/ environ = Some(<<>>))))

C9_Witness ==
    /\ environ = Some(<<>>)
    /\ HasEvent("gh auth token")
    /\ gh.returncode /= 0
    /\ exitStatus = Some(1)
\* fetch_repo_stats has returned to main: a page arrived whose page-info said
\* there is no further page.
FetchReturned ==
    /\ Pages /= <<>>
    /\ LastOf(Pages).status = 200 /\ ~LastOf(Pages).errors /\ LastOf(Pages).hasData
    /\ ~LastOf(Pages).hasNextPage

\* C4: when fetch_repo_stats returns, the total of every requested year is the
\* sum over all nodes of all pages received of the node's count for that year,
\* a node without default branch, target or sub-field counting 0.
C4_Additive ==
    FetchReturned
        => /\ DOMAIN commit_counts = DistinctYears
           /\ \A y \in DistinctYears : commit_counts[y] = received[y]

C4_Witness ==
    /\ FetchReturned
    /\ Len(Pages) = 2
    /\ years = <<2023, 2024>>
    /\ commit_counts[2023] = 2
    /\ commit_counts[2024] = 1

\* The years of a list of records, and a strictly ascending list.
YearsOf(rs) == [i \in DOMAIN rs |-> rs[i].year]
Ascending(ys) == \A i, j \in DOMAIN ys : i < j => ys[i] < ys[j]

\* C5: on a successful run the records written are one per distinct requested
\* year in ascending order, and the CSV holds as many data rows as the JSON
\* array has elements: the number of distinct requested years.
C5_YearsSortedDistinct ==
    exitStatus = Some(0)
        => LET json == Get(jsonFile).rows
               csv == Get(csvFile).rows IN
           /\ Ascending(YearsOf(json))
           /\ SeqToSet(YearsOf(json)) = DistinctYears
           /\ Len(json) = Cardinality(DistinctYears)
           /\ Len(csv) = Len(json)
           /\ \A i \in DOMAIN csv : csv[i][1] = json[i].year
           /\ YearsOf(table) = YearsOf(json)

C5_Witness ==
    /\ exitStatus = Some(0)
    /\ Len(argYears) = 2
    /\ argYears[1] > argYears[2]
    /\ Len(Get(csvFile).rows) = 2

\* C6: the first page request carries a null cursor and every later one the
\* endCursor of the page before it; a further request follows a page exactly
\* when that page said hasNextPage, and the fetcher returns once one did not.
C6_Pagination ==
    /\ \A i \in DOMAIN Pages :
         Pages[i].cursor = IF i = 1 THEN None ELSE Pages[i - 1].endCursor
    /\ \A i \in DOMAIN Pages :
         i < Len(Pages)
            => /\ Pages[i].status = 200 /\ ~Pages[i].errors /\ Pages[i].hasData
               /\ Pages[i].hasNextPage
    /\ (Pages /= <<>> /\ pc = "repos")
         => /\ LastOf(Pages).hasNextPage
            /\ has_next /\ cursor = LastOf(Pages).endCursor
    /\ FetchReturned => pc \in {"search", "output", "exited"}
    /\ pc \in {"search", "output"} => FetchReturned

C6_Witness ==
    /\ Len(Pages) = 2
    /\ Pages[1].cursor = None
    /\ Pages[1].hasNextPage
    /\ Pages[1].endCursor = Some("c1")
    /\ Pages[2].cursor = Some("c1")
    /\ ~Pages[2].hasNextPage
    /\ pc = "search"

\* The place of a call in the run's order.
Rank(op) ==
    CASE op = "_get_token" -> 1
      [] op = "gh auth token" -> 2
      [] op = "viewer" -> 3
      [] op = "fetch_repo_stats" -> 4
      [] op = "page" -> 5
      [] op = "search" -> 6
      [] op = "makedirs" -> 7
      [] op = "write json" -> 8
      [] op = "write csv" -> 9
AllSearched ==
    /\ Len(Searches) = Cardinality(DistinctYears)
    /\ {Searches[i].year : i \in DOMAIN Searches} = DistinctYears
    /\ \A i \in DOMAIN Searches :
         Searches[i].status = 200 /\ ~Searches[i].errors /\ Searches[i].hasData

\* C7: the calls of a run come in the order credentials, viewer query,
\* fetch_repo_stats (once) with its pages, one search per distinct year in
\* ascending order, then the output; nothing is output before the last search
\* has returned, and a successful run made every one of these calls.
C7_Order ==
    /\ \A i, j \in DOMAIN log : i < j => Rank(log[i].op) <= Rank(log[j].op)
    /\ Count("_get_token") <= 1 /\ Count("viewer") <= 1
    /\ Count("fetch_repo_stats") <= 1
    /\ Ascending([i \in DOMAIN Searches |-> Searches[i].year])
    /\ (HasEvent("write json") \/ HasEvent("write csv") \/ table /= <<>>
            \/ ~FilesUntouched)
         => AllSearched
    /\ exitStatus = Some(0)
         => /\ Count("_get_token") = 1 /\ Count("viewer") = 1
            /\ Count("fetch_repo_stats") = 1 /\ Count("page") >= 1
            /\ AllSearched
            /\ Count("write json") = 1 /\ Count("write csv") = 1

C7_Witness ==
    /\ exitStatus = Some(0)
    /\ Len(Pages) = 2
    /\ Len(Searches) = 2
    /\ Searches[1].year = 2023 /\ Searches[2].year = 2024
    /\ LastOf(log).op = "write csv"

\* A query the backend failed: a non-200 status, or "errors" in the body.
NonSuccess(e) == e.op \in QueryOps /\ e.status /= 200
FailedQuery(e) == e.op \in QueryOps /\ (e.status /= 200 \/ e.errors)

\* C2: once the backend has answered any query with a non-200 status, the run
\* has exited with status 1 and both output files are as the run found them.
C2_NonSuccessNoFiles ==
    (\E i \in DOMAIN log : NonSuccess(log[i]))
        => /\ pc = "exited" /\ exitStatus = Some(1)
           /\ FilesUntouched

C2_Witness ==
    /\ before = <<Some(OldJson), Some(OldCsv)>>
    /\ Len(Searches) = 2
    /\ NonSuccess(Searches[2])
    /\ Searches[2].hasData
    /\ exitStatus = Some(1)
    /\ FilesUntouched

\* C8: a failed query (non-200, or "errors" in the body even beside data) is
\* the last call of its run: no query follows it, it is not sent again, the
\* run has exited with status 1, and no record reached the table or the files.
C8_QueryFailureFatal ==
    \A i \in DOMAIN log :
        FailedQuery(log[i])
            => /\ i = Len(log)
               /\ pc = "exited" /\ exitStatus = Some(1)
               /\ table = <<>>
               /\ FilesUntouched

C8_Witness ==
    /\ Len(Searches) = 2
    /\ LastOf(log).op = "search"
    /\ LastOf(log).status = 200 /\ LastOf(log).errors /\ LastOf(log).hasData
    /\ Len(results) = 1
    /\ exitStatus = Some(1)

\* What went wrong in a run, if anything.
CredentialFailure == Resolved /\ token = None
Failure(e) ==
    \/ FailedQuery(e)
    \/ e.op \in QueryOps /\ ~e.hasData
    \/ e.op \in {"makedirs", "write json", "write csv"} /\ e.errors
OtherFailure == \E i \in DOMAIN log : Failure(log[i])
ErrorLines == {"Error: No GitHub token found", "Error: API Error",
               "Error: GraphQL Error", "Error: 'data'", "Error: OSError"}

\* C10 as stated: every failure, the credential failure included, reaches the
\* catch in main, which prints the labelled message and exits with status 1;
\* the status is 0 exactly when nothing failed and both files were written.
C10_AllFailuresCaught ==
    pc = "exited"
        => /\ (CredentialFailure \/ OtherFailure)
                => (caught /\ exitStatus = Some(1) /\ LastOf(stdout) \in ErrorLines)
           /\ exitStatus = Some(0)
                <=> (~CredentialFailure /\ ~OtherFailure
                       /\ WrittenByRun(jsonFile) /\ WrittenByRun(csvFile))

\* C10 as amended: a credential failure ends the process inside _get_token,
\* with its own labelled diagnostic and status 1, without reaching the catch
\* in main; every other failure reaches that catch, which prints the labelled
\* message and exits with status 1; the status is 0 exactly when nothing
\* failed and both files were written.
C10_FailuresExitOne ==
    pc = "exited"
        => /\ CredentialFailure
                => /\ ~caught /\ exitStatus = Some(1)
                   /\ stdout = <<"Error: No GitHub token found">>
           /\ OtherFailure
                => (caught /\ exitStatus = Some(1) /\ LastOf(stdout) \in ErrorLines)
           /\ caught => OtherFailure
           /\ exitStatus = Some(0)
                <=> (~CredentialFailure /\ ~OtherFailure
                       /\ WrittenByRun(jsonFile) /\ WrittenByRun(csvFile))

C10_Witness ==
    /\ pc = "exited"
    /\ LastOf(log).op = "write csv" /\ LastOf(log).errors
    /\ caught
    /\ exitStatus = Some(1)
    /\ WrittenByRun(jsonFile) /\ ~WrittenByRun(csvFile)
====
